---- MODULE Spec2Model ----
(***************************************************************************)
(* FoodRush order lifecycle: order creation and pricing, the status        *)
(* transition handlers, delivery OTP verification, partner assignment and  *)
(* acceptance, reviews and the restaurants' aggregate ratings.             *)
(*                                                                         *)
(* Each request handler runs to completion as one action (one request at   *)
(* a time); createOrder, createReview and acceptOrder also exist split     *)
(* into their reads and their writes, for the specifications in which      *)
(* requests interleave.  The catalog variable holds the menu item prices   *)
(* and delivery fees that updateMenuItem and updateRestaurant change.      *)
(* Money is held in hundredths of a rupee so that the two decimal rounding *)
(* of the taxes is exact.  Ratings are held in tenths.  Time is in minutes.*)
(*                                                                         *)
(* Document validation (the schema's required/min/enum validators) is      *)
(* modelled for the fields the handlers write.  The order number is taken  *)
(* to be assigned by the schema's save hook as its comment says ("before   *)
(* saving"), so a created order is never rejected for lacking a number.    *)
(***************************************************************************)
EXTENDS Integers, Sequences, FiniteSets, TLC

(* ------------------------------ bounds -------------------------------- *)
MaxOrders == 1
MaxTime == 60
TickMinutes == 30
MaxQty == 2
MaxLines == 2
MaxCalls == 2
MaxReviewOrders == 2
MaxReviews == 2
MaxDispatchOrders == 2

(* --------------------------- absent values ---------------------------- *)
NoValue == "none"
NoNumber == 0 - 1

Falsy(x) == x = NoNumber \/ x = 0

(* ------------------------ users and their roles ----------------------- *)
Users == {"cust1", "rider1", "rider2", "owner1", "owner2", "admin1"}

Role(u) ==
  CASE u = "owner1" -> "restaurant_owner"
    [] u = "owner2" -> "restaurant_owner"
    [] u = "admin1" -> "admin"
    [] OTHER -> "customer"

(* Route guards *)
customer(u) == Role(u) = "customer" \/ Role(u) = "admin"

restaurantOwner(u) == Role(u) = "restaurant_owner" \/ Role(u) = "admin"

authorize(roles, u) == Role(u) \in roles

admin(u) == Role(u) = "admin"

(* --------------------------- the catalog ------------------------------ *)
(* the collections and the rest of the state; catalog holds the fields of
   the menu items and restaurants that their owners change after creation:
   each menu item's price and each restaurant's delivery fee *)
VARIABLES orders, partners, now, response, reviews, ratings, orderIndexUnique, inFlight,
          catalog

RestaurantIds == {"r1", "r2"}

Restaurant(r) ==
  CASE r = "r1" -> [owner |-> "owner1", isActive |-> TRUE, minimumOrder |-> 5000,
                    deliveryFee |-> catalog.deliveryFee[r], deliveryTime |-> [min |-> 30, max |-> 60]]
    [] r = "r2" -> [owner |-> "owner2", isActive |-> FALSE, minimumOrder |-> 0,
                    deliveryFee |-> catalog.deliveryFee[r], deliveryTime |-> [min |-> 30, max |-> 60]]

(* the restaurant every menu item of the catalog belongs to *)
MenuItemRestaurant(m) == "r1"

AddressIds == {"a1", "a2"}

AddressUser(a) == IF a = "a1" THEN "cust1" ELSE "owner1"

MenuItemIds == {"m1", "m2", "m3", "m4"}

MenuItem(m) ==
  CASE m = "m1" ->
         [name |-> "Burger", price |-> catalog.price[m], discountedPrice |-> NoNumber,
          isAvailable |-> TRUE,
          variants |-> << [name |-> "Large", price |-> 15000, discountedPrice |-> 12000],
                          [name |-> "Small", price |-> 4000, discountedPrice |-> NoNumber] >>,
          addOns |-> << [name |-> "Cheese", price |-> 2000, isAvailable |-> TRUE],
                        [name |-> "Bacon", price |-> 3000, isAvailable |-> FALSE] >>]
    [] m = "m2" ->
         [name |-> "Soup", price |-> catalog.price[m], discountedPrice |-> NoNumber,
          isAvailable |-> TRUE, variants |-> << >>, addOns |-> << >>]
    [] m = "m3" ->
         [name |-> "Special", price |-> catalog.price[m], discountedPrice |-> NoNumber,
          isAvailable |-> FALSE, variants |-> << >>, addOns |-> << >>]
    [] m = "m4" ->
         [name |-> "Fries", price |-> catalog.price[m], discountedPrice |-> 4500,
          isAvailable |-> TRUE, variants |-> << >>, addOns |-> << >>]

(* the catalog as it is when the first order arrives *)
InitialCatalog ==
  [price |-> [m \in MenuItemIds |->
                CASE m = "m1" -> 10000 [] m = "m2" -> 5000
                  [] m = "m3" -> 20000 [] m = "m4" -> 6000],
   deliveryFee |-> [r \in RestaurantIds |-> 3000]]

(* Array.prototype.find by name: the first element with that name, or NoValue *)
RECURSIVE FindByName(_, _, _)
FindByName(seq, name, i) ==
  IF i > Len(seq) THEN [name |-> NoValue]
  ELSE IF seq[i].name = name THEN seq[i]
  ELSE FindByName(seq, name, i + 1)

Found(x) == x.name # NoValue

(* ------------------------------ pricing ------------------------------- *)
(* Math.round on a quotient num/den of integers, den > 0: half rounds up *)
RoundDiv(num, den) == (2 * num + den) \div (2 * den)

RECURSIVE SumSeq(_, _)
SumSeq(seq, i) == IF i > Len(seq) THEN 0 ELSE seq[i] + SumSeq(seq, i + 1)

(* unit price of a cart line *)
ItemPrice(menuItem, line) ==
  IF line.variant # NoValue /\ Found(FindByName(menuItem.variants, line.variant, 1))
  THEN LET variant == FindByName(menuItem.variants, line.variant, 1)
       IN IF Falsy(variant.discountedPrice) THEN variant.price ELSE variant.discountedPrice
  ELSE menuItem.price

AddOnsTotal(menuItem, line) ==
  SumSeq([k \in 1..Len(line.addOns) |->
            LET menuAddOn == FindByName(menuItem.addOns, line.addOns[k].name, 1)
            IN IF Found(menuAddOn) /\ menuAddOn.isAvailable
               THEN menuAddOn.price * line.quantity ELSE 0], 1)

CustomizationsTotal(line) ==
  SumSeq([k \in 1..Len(line.customizations) |->
            SumSeq([j \in 1..Len(line.customizations[k].selectedOptions) |->
                      line.customizations[k].selectedOptions[j].priceModifier
                        * line.quantity], 1)], 1)

ItemTotal(menuItem, line) ==
  ItemPrice(menuItem, line) * line.quantity
    + AddOnsTotal(menuItem, line) + CustomizationsTotal(line)

OrderItem(line) ==
  LET menuItem == MenuItem(line.menuItem)
  IN [menuItem |-> line.menuItem,
      name |-> menuItem.name,
      price |-> ItemPrice(menuItem, line),
      quantity |-> line.quantity,
      variant |-> line.variant,
      addOns |-> line.addOns,
      customizations |-> line.customizations,
      itemTotal |-> ItemTotal(menuItem, line)]

ItemAvailable(line) ==
  line.menuItem \in MenuItemIds /\ MenuItem(line.menuItem).isAvailable

OrderItems(cart) == [k \in 1..Len(cart) |-> OrderItem(cart[k])]

Subtotal(orderItems) == SumSeq([k \in 1..Len(orderItems) |-> orderItems[k].itemTotal], 1)

DeliveryFeeOf(restaurantData) ==
  IF Falsy(restaurantData.deliveryFee) THEN 0 ELSE restaurantData.deliveryFee

(* a platform fee that truncates instead of rounding *)
PlatformFeeTruncated(subtotal) == (subtotal \div 5000) * 100

(* Math.round(subtotal * 0.02), a whole number of rupees *)
PlatformFee(subtotal) == RoundDiv(subtotal, 5000) * 100

PackagingFee == 1000

(* Math.round(((subtotal * 0.05) / 2) * 100) / 100 *)
HalfGst(subtotal) == RoundDiv(subtotal, 40)

Pricing(subtotal, restaurantData) ==
  [subtotal |-> subtotal,
   deliveryFee |-> DeliveryFeeOf(restaurantData),
   taxes |-> [cgst |-> HalfGst(subtotal), sgst |-> HalfGst(subtotal), igst |-> 0],
   platformFee |-> PlatformFee(subtotal),
   packagingFee |-> PackagingFee,
   total |-> subtotal + DeliveryFeeOf(restaurantData) + PlatformFee(subtotal)
               + PackagingFee + HalfGst(subtotal) + HalfGst(subtotal)]

EstimatedDeliveryTime(t, restaurantData) ==
  t + (restaurantData.deliveryTime.min + restaurantData.deliveryTime.max) \div 2

OtpValidMinutes == 30


(* generateOTP(4): a random 4-digit string; one generated code stands for all,
   and a request may supply that code, another one, or none *)
GeneratedOtps == {"4821"}

OtpCodes == {"4821", "0357"}

(* ----------------------------- order schema --------------------------- *)
OrderStatuses ==
  {"pending", "confirmed", "preparing", "ready_for_pickup", "out_for_delivery",
   "delivered", "cancelled", "refunded"}

PaymentMethods == {"cash_on_delivery", "card", "upi", "wallet", "net_banking"}

CancelledByValues == {"customer", "restaurant", "admin", "system"}

NoCancellationDetails ==
  [reason |-> NoValue, cancelledBy |-> NoValue, refundAmount |-> NoNumber,
   refundStatus |-> NoValue]

NoOtp == [code |-> NoValue, expiresAt |-> NoNumber]

(* ratings are held in tenths: 4.3 is 43 *)
NoRating == [food |-> NoNumber, delivery |-> NoNumber, overall |-> NoNumber]

(* min 1, max 5 on a rating that is present *)
InRatingRange(x) == x = NoNumber \/ (x >= 10 /\ x <= 50)

(* the schema validators that run when an order document is saved *)
ValidOrder(doc) ==
  /\ doc.paymentMethod \in PaymentMethods
  /\ doc.orderStatus \in OrderStatuses
  /\ \A k \in 1..Len(doc.items) :
       /\ doc.items[k].price >= 0
       /\ doc.items[k].quantity >= 1
       /\ doc.items[k].itemTotal >= 0
       /\ \A j \in 1..Len(doc.items[k].addOns) :
            /\ doc.items[k].addOns[j].price # NoNumber
            /\ doc.items[k].addOns[j].price >= 0
  /\ doc.pricing.subtotal >= 0
  /\ doc.pricing.deliveryFee >= 0
  /\ doc.pricing.platformFee >= 0
  /\ doc.pricing.packagingFee >= 0
  /\ doc.pricing.total >= 0
  /\ doc.cancellationDetails.cancelledBy \in CancelledByValues \cup {NoValue}
  /\ doc.cancellationDetails.refundStatus \in {"pending", "processed", "failed", NoValue}
  /\ InRatingRange(doc.rating.food)
  /\ InRatingRange(doc.rating.delivery)
  /\ InRatingRange(doc.rating.overall)

(* pre-save hook: the timeline entry for a modified orderStatus *)
TimelineStatus(orderStatus) ==
  CASE orderStatus = "pending" -> "order_placed"
    [] orderStatus = "confirmed" -> "order_confirmed"
    [] OTHER -> orderStatus

PreSave(doc, statusModified) ==
  IF statusModified
  THEN [doc EXCEPT !.timeline = Append(@, TimelineStatus(doc.orderStatus))]
  ELSE doc

(* ------------------------- delivery partners -------------------------- *)
PartnerIds == {"p1", "p2"}

PartnerUser(p) == IF p = "p1" THEN "rider1" ELSE "rider2"

HasProfile(u) == \E p \in PartnerIds : PartnerUser(p) = u

ProfileOf(u) == CHOOSE p \in PartnerIds : PartnerUser(p) = u

(* ------------------------------- state -------------------------------- *)
(* slots for requests in flight between their reads and their writes *)
CallIds == 1..MaxCalls

Idle == [op |-> "none"]

vars == << orders, partners, now, response, reviews, ratings, orderIndexUnique, inFlight,
          catalog >>

(* what the order and partner handlers leave alone: the review collection,
   the restaurants' aggregate ratings, the index on Review.order, the
   catalog *)
reviewVars == << reviews, ratings, orderIndexUnique, catalog >>

(* the review schema declares the index on order twice, plain and then
   unique; whether the collection ends up with the unique constraint depends
   on which build the database accepts, so both cases are initial states *)
Init ==
  /\ orders = << >>
  /\ partners = [p \in PartnerIds |->
                   [isOnline |-> FALSE, isApproved |-> (p = "p1"), currentOrder |-> 0,
                    totalOrders |-> 0]]
  /\ now = 0
  /\ response = [op |-> "none", code |-> 0, msg |-> NoValue]
  /\ reviews = << >>
  /\ ratings = [r \in RestaurantIds |-> [average |-> 0, count |-> 0]]
  /\ orderIndexUnique \in BOOLEAN
  /\ inFlight = [c \in CallIds |-> Idle]
  /\ catalog = InitialCatalog

Exists(oid) == oid \in 1..Len(orders)

Tick ==
  /\ now + TickMinutes <= MaxTime
  /\ now' = now + TickMinutes
  /\ response' = [op |-> "tick", code |-> 0, msg |-> NoValue]
  /\ UNCHANGED << orders, partners, inFlight >>
  /\ UNCHANGED reviewVars

(* ----------------------------- createOrder ---------------------------- *)
NewOrder(u, restaurant, cart, deliveryAddress, paymentMethod, otpCode) ==
  LET restaurantData == Restaurant(restaurant)
      orderItems == OrderItems(cart)
  IN [orderNumber |-> [ts |-> now, seq |-> Len(orders) + 1],
      customer |-> u,
      restaurant |-> restaurant,
      deliveryPartner |-> NoValue,
      items |-> orderItems,
      deliveryAddress |-> deliveryAddress,
      orderStatus |-> "pending",
      paymentStatus |-> "pending",
      paymentMethod |-> paymentMethod,
      pricing |-> Pricing(Subtotal(orderItems), restaurantData),
      estimatedDeliveryTime |-> EstimatedDeliveryTime(now, restaurantData),
      actualDeliveryTime |-> NoNumber,
      timeline |-> << >>,
      cancellationReason |-> NoValue,
      cancellationDetails |-> NoCancellationDetails,
      rating |-> NoRating,
      otp |-> [code |-> otpCode, expiresAt |-> now + OtpValidMinutes]]

(* a minimum check that also refuses a subtotal equal to the minimum *)
BelowMinimumInclusive(subtotal, restaurantData) == subtotal <= restaurantData.minimumOrder

BelowMinimum(subtotal, restaurantData) == subtotal < restaurantData.minimumOrder

CreateOrderOutcome(u, restaurant, cart, deliveryAddress, paymentMethod, otpCode) ==
  IF ~customer(u) THEN [code |-> 403, msg |-> "Access denied"]
  ELSE IF restaurant \notin RestaurantIds \/ ~Restaurant(restaurant).isActive
  THEN [code |-> 400, msg |-> "Restaurant not available"]
  ELSE IF deliveryAddress \notin AddressIds \/ AddressUser(deliveryAddress) # u
  THEN [code |-> 400, msg |-> "Invalid delivery address"]
  ELSE IF \E k \in 1..Len(cart) : ~ItemAvailable(cart[k])
  THEN [code |-> 400, msg |-> "Menu item is not available"]
  ELSE IF BelowMinimum(Subtotal(OrderItems(cart)), Restaurant(restaurant))
  THEN [code |-> 400, msg |-> "Minimum order value"]
  ELSE IF ~ValidOrder(NewOrder(u, restaurant, cart, deliveryAddress, paymentMethod, otpCode))
  THEN [code |-> 400, msg |-> "Validation failed"]
  ELSE [code |-> 201, msg |-> "Order created successfully"]

CreateOrder(u, restaurant, cart, deliveryAddress, paymentMethod, otpCode, cap) ==
  LET out == CreateOrderOutcome(u, restaurant, cart, deliveryAddress, paymentMethod, otpCode)
  IN /\ Len(orders) < cap
     /\ orders' = IF out.code = 201
                  THEN Append(orders, PreSave(NewOrder(u, restaurant, cart, deliveryAddress,
                                                       paymentMethod, otpCode), FALSE))
                  ELSE orders
     /\ response' = [op |-> "createOrder", code |-> out.code, msg |-> out.msg,
                     user |-> u, restaurant |-> restaurant, cart |-> cart,
                     deliveryAddress |-> deliveryAddress, paymentMethod |-> paymentMethod]
     /\ UNCHANGED << partners, now, inFlight >>
     /\ UNCHANGED reviewVars

(* createOrder as its two steps on the Order collection.  The first runs
   the handler up to the save hook, which counts the orders and builds the
   order number from the clock and the count *)
CreateOrderCount(c, u, restaurant, cart, deliveryAddress, paymentMethod, otpCode, cap) ==
  LET out == CreateOrderOutcome(u, restaurant, cart, deliveryAddress, paymentMethod, otpCode)
  IN /\ inFlight[c] = Idle
     /\ Len(orders) + Cardinality({d \in CallIds : inFlight[d].op = "createOrder"}) < cap
     /\ inFlight' = IF out.code = 201
                    THEN [inFlight EXCEPT ![c] =
                            [op |-> "createOrder",
                             doc |-> NewOrder(u, restaurant, cart, deliveryAddress,
                                              paymentMethod, otpCode)]]
                    ELSE inFlight
     /\ response' = IF out.code = 201 THEN response
                    ELSE [op |-> "createOrder", code |-> out.code, msg |-> out.msg,
                          user |-> u, restaurant |-> restaurant, cart |-> cart,
                          deliveryAddress |-> deliveryAddress,
                          paymentMethod |-> paymentMethod]
     /\ UNCHANGED << orders, partners, now >>
     /\ UNCHANGED reviewVars

(* the unique index on orderNumber refuses a number that is already stored *)
DuplicateOrderNumber(doc) ==
  \E oid \in 1..Len(orders) : orders[oid].orderNumber = doc.orderNumber

(* the second step inserts the document; a refused insert is answered by
   the error handler *)
CreateOrderInsert(c) ==
  LET doc == inFlight[c].doc
      code == IF DuplicateOrderNumber(doc) THEN 400 ELSE 201
  IN /\ inFlight[c].op = "createOrder"
     /\ orders' = IF code = 201 THEN Append(orders, PreSave(doc, FALSE)) ELSE orders
     /\ inFlight' = [inFlight EXCEPT ![c] = Idle]
     /\ response' = [op |-> "createOrder", code |-> code,
                     msg |-> IF code = 201 THEN "Order created successfully"
                             ELSE "Duplicate field value entered",
                     user |-> doc.customer, restaurant |-> doc.restaurant,
                     cart |-> << >>, deliveryAddress |-> doc.deliveryAddress,
                     paymentMethod |-> doc.paymentMethod]
     /\ UNCHANGED << partners, now >>
     /\ UNCHANGED reviewVars

(* --------------------------- updateOrderStatus ------------------------ *)
(* a table that lets a delivered order be cancelled *)
validTransitionsLoose(orderStatus) ==
  CASE orderStatus = "pending" -> {"confirmed", "cancelled"}
    [] orderStatus = "confirmed" -> {"preparing", "cancelled"}
    [] orderStatus = "preparing" -> {"ready_for_pickup", "cancelled"}
    [] orderStatus = "ready_for_pickup" -> {"out_for_delivery", "cancelled"}
    [] orderStatus = "out_for_delivery" -> {"delivered", "cancelled"}
    [] orderStatus = "delivered" -> {"cancelled"}
    [] OTHER -> {}

validTransitions(orderStatus) ==
  CASE orderStatus = "pending" -> {"confirmed", "cancelled"}
    [] orderStatus = "confirmed" -> {"preparing", "cancelled"}
    [] orderStatus = "preparing" -> {"ready_for_pickup", "cancelled"}
    [] orderStatus = "ready_for_pickup" -> {"out_for_delivery", "cancelled"}
    [] orderStatus = "out_for_delivery" -> {"delivered", "cancelled"}
    [] OTHER -> {}

IsPartnerUser(order, u) ==
  order.deliveryPartner # NoValue /\ PartnerUser(order.deliveryPartner) = u

canUpdate(order, u, status) ==
  \/ Role(u) = "admin"
  \/ Restaurant(order.restaurant).owner = u
  \/ IsPartnerUser(order, u)
  \/ (status = "cancelled" /\ order.customer = u)

OrDefault(reason, default) == IF reason = NoValue THEN default ELSE reason

StatusCancellation(order, u, reason) ==
  [order EXCEPT
     !.cancellationReason = "customer_request",
     !.cancellationDetails =
        [reason |-> OrDefault(reason, "No reason provided"),
         cancelledBy |-> Role(u),
         refundAmount |-> order.pricing.total,
         refundStatus |-> "pending"]]

(* a status update that prices the order again from the catalog *)
StatusUpdatedRepriced(order, u, status, reason) ==
  LET o1 == [order EXCEPT !.orderStatus = status,
                          !.pricing = Pricing(order.pricing.subtotal,
                                              Restaurant(order.restaurant))]
      o2 == IF status = "cancelled" THEN StatusCancellation(o1, u, reason) ELSE o1
  IN IF status = "delivered" THEN [o2 EXCEPT !.actualDeliveryTime = now] ELSE o2

StatusUpdated(order, u, status, reason) ==
  LET o1 == [order EXCEPT !.orderStatus = status]
      o2 == IF status = "cancelled" THEN StatusCancellation(o1, u, reason) ELSE o1
  IN IF status = "delivered" THEN [o2 EXCEPT !.actualDeliveryTime = now] ELSE o2

UpdateOrderStatusOutcome(u, oid, status, reason) ==
  IF ~Exists(oid) THEN [code |-> 404, msg |-> "Order not found"]
  ELSE IF ~canUpdate(orders[oid], u, status) THEN [code |-> 403, msg |-> "Access denied"]
  ELSE IF status \notin validTransitions(orders[oid].orderStatus)
  THEN [code |-> 400, msg |-> "Cannot change status"]
  ELSE IF ~ValidOrder(StatusUpdated(orders[oid], u, status, reason))
  THEN [code |-> 400, msg |-> "Validation failed"]
  ELSE [code |-> 200, msg |-> "Order status updated successfully"]

UpdateOrderStatus(u, oid, status, reason) ==
  LET out == UpdateOrderStatusOutcome(u, oid, status, reason)
  IN /\ orders' = IF out.code = 200
                  THEN [orders EXCEPT ![oid] =
                          PreSave(StatusUpdated(orders[oid], u, status, reason),
                                  status # orders[oid].orderStatus)]
                  ELSE orders
     /\ response' = [op |-> "updateOrderStatus", code |-> out.code, msg |-> out.msg]
     /\ UNCHANGED << partners, now, inFlight >>
     /\ UNCHANGED reviewVars

(* ------------------------- assignDeliveryPartner ---------------------- *)
PartnerAvailable(p) == p \in PartnerIds /\ partners[p].isOnline

AssignDeliveryPartnerOutcome(u, oid, deliveryPartnerId) ==
  IF ~restaurantOwner(u) THEN [code |-> 403, msg |-> "Restaurant owner access required"]
  ELSE IF ~Exists(oid) THEN [code |-> 404, msg |-> "Order not found"]
  ELSE IF Restaurant(orders[oid].restaurant).owner # u /\ Role(u) # "admin"
  THEN [code |-> 403, msg |-> "Access denied"]
  ELSE IF ~PartnerAvailable(deliveryPartnerId)
  THEN [code |-> 400, msg |-> "Delivery partner not available"]
  ELSE [code |-> 200, msg |-> "Delivery partner assigned successfully"]

AssignDeliveryPartner(u, oid, deliveryPartnerId) ==
  LET out == AssignDeliveryPartnerOutcome(u, oid, deliveryPartnerId)
  IN /\ orders' = IF out.code = 200
                  THEN [orders EXCEPT ![oid] =
                          PreSave([orders[oid] EXCEPT !.deliveryPartner = deliveryPartnerId],
                                  FALSE)]
                  ELSE orders
     /\ response' = [op |-> "assignDeliveryPartner", code |-> out.code, msg |-> out.msg]
     /\ UNCHANGED << partners, now, inFlight >>
     /\ UNCHANGED reviewVars

(* ------------------------------ cancelOrder --------------------------- *)
cancellableStatuses == {"pending", "confirmed", "preparing"}

canCancel(order, u) == order.customer = u \/ Role(u) = "admin"

(* a cancellation that refunds the subtotal only *)
CancelledRefundsSubtotal(order, reason) ==
  [order EXCEPT
     !.orderStatus = "cancelled",
     !.cancellationReason = "customer_request",
     !.cancellationDetails =
        [reason |-> OrDefault(reason, "Customer requested cancellation"),
         cancelledBy |-> "customer",
         refundAmount |-> order.pricing.subtotal,
         refundStatus |-> "pending"]]

Cancelled(order, reason) ==
  [order EXCEPT
     !.orderStatus = "cancelled",
     !.cancellationReason = "customer_request",
     !.cancellationDetails =
        [reason |-> OrDefault(reason, "Customer requested cancellation"),
         cancelledBy |-> "customer",
         refundAmount |-> order.pricing.total,
         refundStatus |-> "pending"]]

CancelOrderOutcome(u, oid, reason) ==
  IF ~customer(u) THEN [code |-> 403, msg |-> "Customer access required"]
  ELSE IF ~Exists(oid) THEN [code |-> 404, msg |-> "Order not found"]
  ELSE IF ~canCancel(orders[oid], u) THEN [code |-> 403, msg |-> "Access denied"]
  ELSE IF orders[oid].orderStatus \notin cancellableStatuses
  THEN [code |-> 400, msg |-> "Order cannot be cancelled at this stage"]
  ELSE [code |-> 200, msg |-> "Order cancelled successfully"]

CancelOrder(u, oid, reason) ==
  LET out == CancelOrderOutcome(u, oid, reason)
  IN /\ orders' = IF out.code = 200
                  THEN [orders EXCEPT ![oid] = PreSave(Cancelled(orders[oid], reason), TRUE)]
                  ELSE orders
     /\ response' = [op |-> "cancelOrder", code |-> out.code, msg |-> out.msg]
     /\ UNCHANGED << partners, now, inFlight >>
     /\ UNCHANGED reviewVars

(* --------------------------- verifyDeliveryOTP ------------------------ *)
(* an expiry test that already refuses the code at the expiry instant *)
OtpRejectedAtExpiry(order, otp) ==
  \/ order.otp.code # otp
  \/ (order.otp.expiresAt # NoNumber /\ now >= order.otp.expiresAt)

(* a test of the code alone, without the expiry *)
OtpRejectedCodeOnly(order, otp) == order.otp.code # otp

(* order.otp.code !== otp || new Date() > order.otp.expiresAt; a comparison
   with an absent expiry date is false *)
OtpRejected(order, otp) ==
  \/ order.otp.code # otp
  \/ (order.otp.expiresAt # NoNumber /\ now > order.otp.expiresAt)

Delivered(order) ==
  [order EXCEPT !.orderStatus = "delivered", !.actualDeliveryTime = now, !.otp = NoOtp]

(* a verification that any signed-in user may ask for *)
VerifyDeliveryOTPOutcomeAnyCaller(u, oid, otp) ==
  IF ~Exists(oid) THEN [code |-> 404, msg |-> "Order not found"]
  ELSE IF OtpRejected(orders[oid], otp) THEN [code |-> 400, msg |-> "Invalid or expired OTP"]
  ELSE [code |-> 200, msg |-> "Order delivered successfully"]

VerifyDeliveryOTPOutcome(u, oid, otp) ==
  IF ~authorize({"delivery_partner", "admin"}, u)
  THEN [code |-> 403, msg |-> "Access denied. Required roles"]
  ELSE IF ~Exists(oid) THEN [code |-> 404, msg |-> "Order not found"]
  ELSE IF OtpRejected(orders[oid], otp) THEN [code |-> 400, msg |-> "Invalid or expired OTP"]
  ELSE [code |-> 200, msg |-> "Order delivered successfully"]

VerifyDeliveryOTP(u, oid, otp) ==
  LET out == VerifyDeliveryOTPOutcome(u, oid, otp)
  IN /\ orders' = IF out.code = 200
                  THEN [orders EXCEPT ![oid] =
                          PreSave(Delivered(orders[oid]),
                                  orders[oid].orderStatus # "delivered")]
                  ELSE orders
     /\ response' = [op |-> "verifyDeliveryOTP", code |-> out.code, msg |-> out.msg]
     /\ UNCHANGED << partners, now, inFlight >>
     /\ UNCHANGED reviewVars

(* ------------------- delivery partner: availability, accept ----------- *)
UpdateAvailabilityOutcome(u) ==
  IF ~HasProfile(u) THEN [code |-> 404, msg |-> "Delivery partner profile not found"]
  ELSE IF ~partners[ProfileOf(u)].isApproved
  THEN [code |-> 400, msg |-> "Profile not approved yet"]
  ELSE [code |-> 200, msg |-> "Status updated"]

UpdateAvailability(u, isOnline) ==
  LET out == UpdateAvailabilityOutcome(u)
  IN /\ partners' = IF out.code = 200
                    THEN [partners EXCEPT ![ProfileOf(u)].isOnline = isOnline]
                    ELSE partners
     /\ response' = [op |-> "updateAvailability", code |-> out.code, msg |-> out.msg]
     /\ UNCHANGED << orders, now, inFlight >>
     /\ UNCHANGED reviewVars

(* an accept that does not look at the order's status or partner *)
AcceptOrderOutcomeAnyOrder(u, oid) ==
  IF ~HasProfile(u) \/ ~partners[ProfileOf(u)].isOnline
  THEN [code |-> 400, msg |-> "You must be online to accept orders"]
  ELSE IF partners[ProfileOf(u)].currentOrder # 0
  THEN [code |-> 400, msg |-> "You already have an active order"]
  ELSE IF ~Exists(oid)
  THEN [code |-> 400, msg |-> "Order not available for pickup"]
  ELSE [code |-> 200, msg |-> "Order accepted successfully"]

AcceptOrderOutcome(u, oid) ==
  IF ~HasProfile(u) \/ ~partners[ProfileOf(u)].isOnline
  THEN [code |-> 400, msg |-> "You must be online to accept orders"]
  ELSE IF partners[ProfileOf(u)].currentOrder # 0
  THEN [code |-> 400, msg |-> "You already have an active order"]
  ELSE IF \/ ~Exists(oid)
          \/ orders[oid].orderStatus # "ready_for_pickup"
          \/ orders[oid].deliveryPartner # NoValue
  THEN [code |-> 400, msg |-> "Order not available for pickup"]
  ELSE [code |-> 200, msg |-> "Order accepted successfully"]

AcceptOrder(u, oid) ==
  LET out == AcceptOrderOutcome(u, oid)
  IN /\ orders' = IF out.code = 200
                  THEN [orders EXCEPT ![oid] =
                          PreSave([orders[oid] EXCEPT !.deliveryPartner = ProfileOf(u),
                                                      !.orderStatus = "out_for_delivery"],
                                  TRUE)]
                  ELSE orders
     /\ partners' = IF out.code = 200
                    THEN [partners EXCEPT ![ProfileOf(u)].currentOrder = oid,
                                          ![ProfileOf(u)].totalOrders = @ + 1]
                    ELSE partners
     /\ response' = [op |-> "acceptOrder", code |-> out.code, msg |-> out.msg]
     /\ UNCHANGED << now, inFlight >>
     /\ UNCHANGED reviewVars

(* --------------- acceptOrder, its reads and writes apart -------------- *)
(* the request reads the partner and the order and checks them; a request
   that passes waits in flight with what it read *)
AcceptOrderRead(c, u, oid) ==
  LET out == AcceptOrderOutcome(u, oid)
  IN /\ inFlight[c] = Idle
     /\ inFlight' = IF out.code = 200
                    THEN [inFlight EXCEPT ![c] =
                            [op |-> "acceptOrder", pc |-> "saveOrder", u |-> u, oid |-> oid,
                             totalOrders |-> partners[ProfileOf(u)].totalOrders]]
                    ELSE inFlight
     /\ response' = IF out.code = 200 THEN response
                    ELSE [op |-> "acceptOrder", code |-> out.code, msg |-> out.msg]
     /\ UNCHANGED << orders, partners, now >>
     /\ UNCHANGED reviewVars

(* order.save(): the partner and the status the request set on its copy *)
AcceptOrderSaveOrder(c) ==
  /\ inFlight[c].op = "acceptOrder"
  /\ inFlight[c].pc = "saveOrder"
  /\ orders' = [orders EXCEPT ![inFlight[c].oid] =
                  PreSave([orders[inFlight[c].oid] EXCEPT
                             !.deliveryPartner = ProfileOf(inFlight[c].u),
                             !.orderStatus = "out_for_delivery"], TRUE)]
  /\ inFlight' = [inFlight EXCEPT ![c].pc = "savePartner"]
  /\ UNCHANGED << partners, now, response >>
  /\ UNCHANGED reviewVars

(* deliveryPartner.save(): currentOrder and totalOrders + 1 on its copy *)
AcceptOrderSavePartner(c) ==
  /\ inFlight[c].op = "acceptOrder"
  /\ inFlight[c].pc = "savePartner"
  /\ partners' = [partners EXCEPT
                    ![ProfileOf(inFlight[c].u)].currentOrder = inFlight[c].oid,
                    ![ProfileOf(inFlight[c].u)].totalOrders = inFlight[c].totalOrders + 1]
  /\ inFlight' = [inFlight EXCEPT ![c] = Idle]
  /\ response' = [op |-> "acceptOrder", code |-> 200, msg |-> "Order accepted successfully"]
  /\ UNCHANGED << orders, now >>
  /\ UNCHANGED reviewVars

(* -------------------- delivery partner: approval ---------------------- *)
UpdateApprovalStatusOutcome(u, p) ==
  IF ~admin(u) THEN [code |-> 403, msg |-> "Admin access required"]
  ELSE IF p \notin PartnerIds THEN [code |-> 404, msg |-> "Delivery partner not found"]
  ELSE [code |-> 200, msg |-> "Delivery partner approved or rejected"]

UpdateApprovalStatus(u, p, isApproved) ==
  LET out == UpdateApprovalStatusOutcome(u, p)
  IN /\ partners' = IF out.code = 200
                    THEN [partners EXCEPT ![p].isApproved = isApproved]
                    ELSE partners
     /\ response' = [op |-> "updateApprovalStatus", code |-> out.code, msg |-> out.msg]
     /\ UNCHANGED << orders, now, inFlight >>
     /\ UNCHANGED reviewVars

(* ------------------------------- reviews ------------------------------ *)
ReviewIds == 1..Len(reviews)

(* a review that is in the collection: created and not deleted *)
Stored(rid) == rid \in ReviewIds /\ ~reviews[rid].deleted

ReviewsOfOrder(oid) == { rid \in ReviewIds : Stored(rid) /\ reviews[rid].order = oid }

(* required, min 1, max 5 on each of the four ratings *)
ValidRatings(rt) ==
  \A x \in {rt.food, rt.delivery, rt.service, rt.overall} : x # NoNumber /\ InRatingRange(x)

(* Math.round(((food + delivery + service) / 3) * 10) / 10, in tenths *)
DerivedOverall(rt) == RoundDiv(rt.food + rt.delivery + rt.service, 3)

(* pre-save hook of the review: overall follows the three ratings when one
   of them is modified *)
ReviewPreSave(doc, ratingsModified) ==
  IF ratingsModified THEN [doc EXCEPT !.ratings.overall = DerivedOverall(doc.ratings)]
  ELSE doc

RECURSIVE SumOverall(_, _, _)
SumOverall(revs, restaurant, i) ==
  IF i > Len(revs) THEN 0
  ELSE (IF ~revs[i].deleted /\ revs[i].restaurant = restaurant
        THEN revs[i].ratings.overall ELSE 0)
       + SumOverall(revs, restaurant, i + 1)

CountReviews(revs, restaurant) ==
  Cardinality({ i \in 1..Len(revs) : ~revs[i].deleted /\ revs[i].restaurant = restaurant })

(* post-save hook of the review: the restaurant's average and count over
   the reviews then in the collection *)
Aggregated(revs, restaurant) ==
  IF CountReviews(revs, restaurant) > 0
  THEN [ratings EXCEPT ![restaurant] =
          [average |-> RoundDiv(SumOverall(revs, restaurant, 1),
                                CountReviews(revs, restaurant)),
           count |-> CountReviews(revs, restaurant)]]
  ELSE ratings

(* checks that let an order of any status be reviewed *)
CreateReviewChecksAnyStatus(u, orderId) ==
  IF ~customer(u) THEN [code |-> 403, msg |-> "Customer access required"]
  ELSE IF ~Exists(orderId) THEN [code |-> 404, msg |-> "Order not found"]
  ELSE IF orders[orderId].customer # u THEN [code |-> 403, msg |-> "Access denied"]
  ELSE IF ReviewsOfOrder(orderId) # {}
  THEN [code |-> 400, msg |-> "Review already exists for this order"]
  ELSE [code |-> 0, msg |-> "checked"]

(* createReview up to its last read: the order, the caller, the status and
   the search for an existing review *)
CreateReviewChecks(u, orderId) ==
  IF ~customer(u) THEN [code |-> 403, msg |-> "Customer access required"]
  ELSE IF ~Exists(orderId) THEN [code |-> 404, msg |-> "Order not found"]
  ELSE IF orders[orderId].customer # u THEN [code |-> 403, msg |-> "Access denied"]
  ELSE IF orders[orderId].orderStatus # "delivered"
  THEN [code |-> 400, msg |-> "Cannot review order that is not delivered"]
  ELSE IF ReviewsOfOrder(orderId) # {}
  THEN [code |-> 400, msg |-> "Review already exists for this order"]
  ELSE [code |-> 0, msg |-> "checked"]

ReviewData(u, orderId, rt) ==
  [customer |-> u,
   order |-> orderId,
   restaurant |-> orders[orderId].restaurant,
   deliveryPartner |-> orders[orderId].deliveryPartner,
   ratings |-> rt,
   createdAt |-> now,
   deleted |-> FALSE]

(* Review.create: validation, then the save hook, then the insert, which
   the unique index on order refuses for a second review of the order *)
ReviewCreateOutcome(u, orderId, rt) ==
  IF ~ValidRatings(rt) THEN [code |-> 400, msg |-> "Validation failed"]
  ELSE IF orderIndexUnique /\ ReviewsOfOrder(orderId) # {}
  THEN [code |-> 400, msg |-> "Duplicate field value entered"]
  ELSE [code |-> 201, msg |-> "Review created successfully"]

(* the rating createReview attaches to the order: taken from the request *)
OrderRating(rt) == [food |-> rt.food, delivery |-> rt.delivery, overall |-> rt.overall]

(* the request reads; a request that passes them waits in flight *)
CreateReviewCheck(c, u, orderId, rt) ==
  LET out == CreateReviewChecks(u, orderId)
  IN /\ inFlight[c] = Idle
     /\ Len(reviews) < MaxReviews
     /\ inFlight' = IF out.code = 0
                    THEN [inFlight EXCEPT ![c] =
                            [op |-> "createReview", u |-> u, orderId |-> orderId,
                             ratings |-> rt]]
                    ELSE inFlight
     /\ response' = [op |-> "createReview", code |-> out.code, msg |-> out.msg]
     /\ UNCHANGED << orders, partners, now >>
     /\ UNCHANGED reviewVars

(* the request writes: the review, the aggregate, the order's rating *)
CreateReviewWrite(c) ==
  /\ inFlight[c].op = "createReview"
  /\ LET call == inFlight[c]
         out == ReviewCreateOutcome(call.u, call.orderId, call.ratings)
         saved == Append(reviews,
                         ReviewPreSave(ReviewData(call.u, call.orderId, call.ratings), TRUE))
     IN /\ reviews' = IF out.code = 201 THEN saved ELSE reviews
        /\ ratings' = IF out.code = 201
                      THEN Aggregated(saved, orders[call.orderId].restaurant)
                      ELSE ratings
        /\ orders' = IF out.code = 201
                     THEN [orders EXCEPT ![call.orderId] =
                             PreSave([orders[call.orderId] EXCEPT
                                        !.rating = OrderRating(call.ratings)], FALSE)]
                     ELSE orders
        /\ response' = [op |-> "createReview", code |-> out.code, msg |-> out.msg]
  /\ inFlight' = [inFlight EXCEPT ![c] = Idle]
  /\ UNCHANGED << partners, now, orderIndexUnique, catalog >>

CreateReviewOutcome(u, orderId, rt) ==
  IF CreateReviewChecks(u, orderId).code # 0 THEN CreateReviewChecks(u, orderId)
  ELSE ReviewCreateOutcome(u, orderId, rt)

(* createReview running from its first read to its last write undisturbed *)
CreateReview(u, orderId, rt) ==
  LET out == CreateReviewOutcome(u, orderId, rt)
      saved == Append(reviews, ReviewPreSave(ReviewData(u, orderId, rt), TRUE))
  IN /\ \A c \in CallIds : inFlight[c] = Idle
     /\ Len(reviews) < MaxReviews
     /\ reviews' = IF out.code = 201 THEN saved ELSE reviews
     /\ ratings' = IF out.code = 201 THEN Aggregated(saved, orders[orderId].restaurant)
                   ELSE ratings
     /\ orders' = IF out.code = 201
                  THEN [orders EXCEPT ![orderId] =
                          PreSave([orders[orderId] EXCEPT !.rating = OrderRating(rt)], FALSE)]
                  ELSE orders
     /\ response' = [op |-> "createReview", code |-> out.code, msg |-> out.msg]
     /\ UNCHANGED << partners, now, orderIndexUnique, inFlight, catalog >>

(* ------------------------ updateReview, deleteReview ------------------ *)
EditWindowMinutes == 1440

(* { ...review.ratings, ...ratings }: a rating the request supplies replaces
   the stored one *)
Merged(stored, rt) ==
  [food |-> IF rt.food = NoNumber THEN stored.food ELSE rt.food,
   delivery |-> IF rt.delivery = NoNumber THEN stored.delivery ELSE rt.delivery,
   service |-> IF rt.service = NoNumber THEN stored.service ELSE rt.service,
   overall |-> IF rt.overall = NoNumber THEN stored.overall ELSE rt.overall]

RatingsModified(stored, merged) ==
  \/ merged.food # stored.food
  \/ merged.delivery # stored.delivery
  \/ merged.service # stored.service

UpdateReviewOutcome(u, rid, rt) ==
  IF ~customer(u) THEN [code |-> 403, msg |-> "Customer access required"]
  ELSE IF ~Stored(rid) THEN [code |-> 404, msg |-> "Review not found"]
  ELSE IF reviews[rid].customer # u THEN [code |-> 403, msg |-> "Access denied"]
  ELSE IF reviews[rid].createdAt < now - EditWindowMinutes
  THEN [code |-> 400, msg |-> "Reviews cannot be edited after 24 hours"]
  ELSE IF ~ValidRatings(Merged(reviews[rid].ratings, rt))
  THEN [code |-> 400, msg |-> "Validation failed"]
  ELSE [code |-> 200, msg |-> "Review updated successfully"]

UpdateReview(u, rid, rt) ==
  LET out == UpdateReviewOutcome(u, rid, rt)
      merged == Merged(reviews[rid].ratings, rt)
      saved == [reviews EXCEPT ![rid] =
                  ReviewPreSave([reviews[rid] EXCEPT !.ratings = merged],
                                RatingsModified(reviews[rid].ratings, merged))]
  IN /\ \A c \in CallIds : inFlight[c] = Idle
     /\ reviews' = IF out.code = 200 THEN saved ELSE reviews
     /\ ratings' = IF out.code = 200 THEN Aggregated(saved, reviews[rid].restaurant)
                   ELSE ratings
     /\ response' = [op |-> "updateReview", code |-> out.code, msg |-> out.msg]
     /\ UNCHANGED << orders, partners, now, orderIndexUnique, inFlight, catalog >>

DeleteReviewOutcome(u, rid) ==
  IF ~Stored(rid) THEN [code |-> 404, msg |-> "Review not found"]
  ELSE IF reviews[rid].customer # u /\ Role(u) # "admin"
  THEN [code |-> 403, msg |-> "Access denied"]
  ELSE [code |-> 200, msg |-> "Review deleted successfully"]

(* Review.findByIdAndDelete: the document leaves the collection; no save
   hook runs *)
DeleteReview(u, rid) ==
  LET out == DeleteReviewOutcome(u, rid)
  IN /\ \A c \in CallIds : inFlight[c] = Idle
     /\ reviews' = IF out.code = 200 THEN [reviews EXCEPT ![rid].deleted = TRUE]
                   ELSE reviews
     /\ response' = [op |-> "deleteReview", code |-> out.code, msg |-> out.msg]
     /\ UNCHANGED << orders, partners, now, ratings, orderIndexUnique, inFlight, catalog >>

(* ------------------------------- getOrder ----------------------------- *)
(* populate(path, select): the referenced document with the selected
   fields only; a field that was not selected is absent *)
Selected(doc, fields, field) == IF field \in fields THEN doc[field] ELSE NoValue

GetOrderRestaurantFields == {"name", "phoneNumber", "address", "images"}

hasAccess(order, u) ==
  \/ order.customer = u
  \/ ( /\ Selected(Restaurant(order.restaurant), GetOrderRestaurantFields, "owner") # NoValue
       /\ Selected(Restaurant(order.restaurant), GetOrderRestaurantFields, "owner") = u )
  \/ IsPartnerUser(order, u)
  \/ Role(u) = "admin"

GetOrderOutcome(u, oid) ==
  IF ~Exists(oid) THEN [code |-> 404, msg |-> "Order not found"]
  ELSE IF ~hasAccess(orders[oid], u) THEN [code |-> 403, msg |-> "Access denied"]
  ELSE [code |-> 200, msg |-> "Order retrieved successfully"]

GetOrder(u, oid) ==
  /\ response' = [op |-> "getOrder", code |-> GetOrderOutcome(u, oid).code,
                  msg |-> GetOrderOutcome(u, oid).msg]
  /\ UNCHANGED << orders, partners, now, inFlight >>
  /\ UNCHANGED reviewVars

(* ------------------- requests that assign their body ------------------ *)
(* a request body is a record holding only the fields the caller sent *)
Has(body, field) == field \in DOMAIN body

(* Object.assign(deliveryPartner, req.body) *)
AssignedProfile(doc, body) ==
  [isOnline |-> IF Has(body, "isOnline") THEN body.isOnline ELSE doc.isOnline,
   isApproved |-> IF Has(body, "isApproved") THEN body.isApproved ELSE doc.isApproved,
   currentOrder |-> IF Has(body, "currentOrder") THEN body.currentOrder
                    ELSE doc.currentOrder,
   totalOrders |-> IF Has(body, "statistics") THEN body.statistics.totalOrders
                   ELSE doc.totalOrders]

UpdateMyProfileOutcome(u, body) ==
  IF ~HasProfile(u) THEN [code |-> 404, msg |-> "Delivery partner profile not found"]
  ELSE [code |-> 200, msg |-> "Profile updated successfully"]

UpdateMyProfile(u, body) ==
  LET out == UpdateMyProfileOutcome(u, body)
  IN /\ partners' = IF out.code = 200
                    THEN [partners EXCEPT
                            ![ProfileOf(u)] = AssignedProfile(partners[ProfileOf(u)], body)]
                    ELSE partners
     /\ response' = [op |-> "updateMyProfile", code |-> out.code, msg |-> out.msg]
     /\ UNCHANGED << orders, now, inFlight >>
     /\ UNCHANGED reviewVars

(* the validators of Restaurant.rating.average, in tenths *)
ValidRestaurantRating(rating) == rating.average >= 0 /\ rating.average <= 50

UpdateRestaurantOutcome(u, r, body) ==
  IF ~restaurantOwner(u)
  THEN [code |-> 403, msg |-> "Access denied. Restaurant owner access required"]
  ELSE IF r \notin RestaurantIds THEN [code |-> 404, msg |-> "Restaurant not found"]
  ELSE IF Restaurant(r).owner # u /\ Role(u) # "admin"
  THEN [code |-> 403, msg |-> "Access denied"]
  ELSE IF \/ Has(body, "rating") /\ ~ValidRestaurantRating(body.rating)
          \/ Has(body, "deliveryFee") /\ body.deliveryFee < 0
  THEN [code |-> 400, msg |-> "Validation failed"]
  ELSE [code |-> 200, msg |-> "Restaurant updated successfully"]

(* Object.assign(restaurant, req.body), then save *)
UpdateRestaurant(u, r, body) ==
  LET out == UpdateRestaurantOutcome(u, r, body)
  IN /\ ratings' = IF out.code = 200 /\ Has(body, "rating")
                   THEN [ratings EXCEPT ![r] = body.rating]
                   ELSE ratings
     /\ catalog' = IF out.code = 200 /\ Has(body, "deliveryFee")
                   THEN [catalog EXCEPT !.deliveryFee[r] = body.deliveryFee]
                   ELSE catalog
     /\ response' = [op |-> "updateRestaurant", code |-> out.code, msg |-> out.msg]
     /\ UNCHANGED << orders, partners, now, reviews, orderIndexUnique, inFlight >>

UpdateMenuItemOutcome(u, m, body) ==
  IF ~restaurantOwner(u)
  THEN [code |-> 403, msg |-> "Access denied. Restaurant owner access required"]
  ELSE IF m \notin MenuItemIds THEN [code |-> 404, msg |-> "Menu item not found"]
  ELSE IF Restaurant(MenuItemRestaurant(m)).owner # u /\ Role(u) # "admin"
  THEN [code |-> 403, msg |-> "Access denied"]
  ELSE IF Has(body, "price") /\ body.price < 0
  THEN [code |-> 400, msg |-> "Validation failed"]
  ELSE [code |-> 200, msg |-> "Menu item updated successfully"]

(* Object.assign(menuItem, req.body), then save *)
UpdateMenuItem(u, m, body) ==
  LET out == UpdateMenuItemOutcome(u, m, body)
  IN /\ catalog' = IF out.code = 200 /\ Has(body, "price")
                   THEN [catalog EXCEPT !.price[m] = body.price]
                   ELSE catalog
     /\ response' = [op |-> "updateMenuItem", code |-> out.code, msg |-> out.msg]
     /\ UNCHANGED << orders, partners, now, reviews, ratings, orderIndexUnique, inFlight >>

(* --------------------------- request inputs --------------------------- *)
OrderIds == 1..MaxOrders

Reasons == {NoValue, "late"}

CheeseAddOn == [name |-> "Cheese", price |-> 2000]

Line(m, q, variant, addOns, customizations) ==
  [menuItem |-> m, quantity |-> q, variant |-> variant, addOns |-> addOns,
   customizations |-> customizations]

ExampleCart == << Line("m1", 2, NoValue, << CheeseAddOn >>, << >>) >>

(* the carts of the lifecycle specification *)
Carts ==
  { << Line("m1", 2, NoValue, << CheeseAddOn >>, << >>) >>,
    << Line("m1", 1, "Small", << >>, << >>) >>,
    << Line("m3", 1, NoValue, << >>, << >>) >>,
    << Line("m2", 0, NoValue, << >>, << >>) >> }

Next ==
  \/ Tick
  \/ \E u \in Users, r \in RestaurantIds \cup {"r9"}, cart \in Carts,
        a \in AddressIds \cup {"a9"}, pm \in {"cash_on_delivery"}, c \in GeneratedOtps :
       CreateOrder(u, r, cart, a, pm, c, MaxOrders)
  \/ \E u \in Users, oid \in OrderIds, status \in OrderStatuses, reason \in Reasons :
       UpdateOrderStatus(u, oid, status, reason)
  \/ \E u \in Users, oid \in OrderIds, p \in PartnerIds \cup {"p9"} :
       AssignDeliveryPartner(u, oid, p)
  \/ \E u \in Users, oid \in OrderIds, reason \in Reasons : CancelOrder(u, oid, reason)
  \/ \E u \in Users, oid \in OrderIds, otp \in OtpCodes \cup {NoValue} :
       VerifyDeliveryOTP(u, oid, otp)
  \/ \E u \in Users, isOnline \in BOOLEAN : UpdateAvailability(u, isOnline)
  \/ \E u \in Users, oid \in OrderIds : AcceptOrder(u, oid)

Spec == Init /\ [][Next]_vars

(* ------------------- the pricing specification ----------------------- *)
(* one createOrder request on the empty store, over a wide range of carts *)
AddOnChoices ==
  { << >>,
    << CheeseAddOn >>,
    << [name |-> "Cheese", price |-> NoNumber] >>,
    << [name |-> "Bacon", price |-> 3000] >>,
    << [name |-> "Truffle", price |-> 9000] >> }

Option(priceModifier) == [name |-> "opt", priceModifier |-> priceModifier]

CustomizationChoices ==
  { << >>,
    << [name |-> "Bun", selectedOptions |-> << Option(500) >>] >>,
    << [name |-> "Bun", selectedOptions |-> << Option(0 - 2000) >>] >>,
    << [name |-> "Bun", selectedOptions |-> << Option(0 - 20000), Option(500) >>] >> }

CartLines ==
  { Line(m, q, v, a, c) :
      m \in MenuItemIds \cup {"m9"}, q \in 0..MaxQty, v \in {NoValue, "Large", "Small", "Jumbo"},
      a \in AddOnChoices, c \in CustomizationChoices }

PricingCarts ==
  { << >> } \cup { << l >> : l \in CartLines }
    \cup (IF MaxLines >= 2
          THEN { << l, Line("m2", 1, NoValue, << >>, << >>) >> : l \in CartLines }
          ELSE {})

NextPricing ==
  /\ response.op = "none"
  /\ \E u \in {"cust1", "owner1"}, r \in RestaurantIds, cart \in PricingCarts,
        a \in AddressIds, pm \in {"upi", NoValue}, c \in GeneratedOtps :
       CreateOrder(u, r, cart, a, pm, c, MaxOrders)

SpecPricing == Init /\ [][NextPricing]_vars

(* ------------------- the review specifications ----------------------- *)
Rt(food, delivery, service, overall) ==
  [food |-> food, delivery |-> delivery, service |-> service, overall |-> overall]

(* ratings a createReview request may carry: whole stars, an overall that
   differs from the derived one, no overall, a rating out of range *)
ReviewRatings ==
  { Rt(50, 40, 40, 40), Rt(20, 30, 30, 50), Rt(50, 40, 40, NoNumber), Rt(60, 40, 40, 40) }

(* ratings an updateReview request may carry: a rating it leaves out is
   kept as stored *)
UpdateRatings ==
  { Rt(10, NoNumber, NoNumber, NoNumber), Rt(NoNumber, NoNumber, NoNumber, 10),
    Rt(0, NoNumber, NoNumber, NoNumber) }

ReviewOrderIds == 1..MaxReviewOrders

ReviewUsers == {"cust1", "rider1", "admin1"}

(* orders are placed and carried through their statuses by the order
   handlers, then reviewed *)
OrderSteps ==
  \/ \E c \in GeneratedOtps :
       CreateOrder("cust1", "r1", ExampleCart, "a1", "cash_on_delivery", c, MaxReviewOrders)
  \/ \E oid \in ReviewOrderIds, status \in OrderStatuses :
       UpdateOrderStatus("owner1", oid, status, NoValue)

NextReview ==
  \/ OrderSteps
  \/ \E u \in ReviewUsers, oid \in ReviewOrderIds \cup {MaxReviewOrders + 1},
        rt \in ReviewRatings :
       CreateReview(u, oid, rt)
  \/ \E u \in ReviewUsers, rid \in 1..MaxReviews, rt \in UpdateRatings :
       UpdateReview(u, rid, rt)
  \/ \E u \in ReviewUsers, rid \in 1..MaxReviews : DeleteReview(u, rid)

SpecReview == Init /\ [][NextReview]_vars

(* two createReview requests whose reads and writes interleave *)
NextReviewRace ==
  \/ OrderSteps
  \/ \E c \in CallIds, u \in ReviewUsers, oid \in ReviewOrderIds, rt \in ReviewRatings :
       CreateReviewCheck(c, u, oid, rt)
  \/ \E c \in CallIds : CreateReviewWrite(c)

SpecReviewRace == Init /\ [][NextReviewRace]_vars

(* ------------------- the dispatch specification ---------------------- *)
DispatchOrderIds == 1..MaxDispatchOrders

Riders == {"rider1", "rider2"}

(* orders are placed and prepared, partners are approved, go online, accept
   orders or are assigned to them *)
NextDispatch ==
  \/ \E c \in GeneratedOtps :
       CreateOrder("cust1", "r1", ExampleCart, "a1", "cash_on_delivery", c, MaxDispatchOrders)
  \/ \E oid \in DispatchOrderIds, status \in OrderStatuses :
       UpdateOrderStatus("owner1", oid, status, NoValue)
  \/ \E u \in {"admin1", "owner1"}, p \in {"p2", "p9"} : UpdateApprovalStatus(u, p, TRUE)
  \/ \E u \in Riders : UpdateAvailability(u, TRUE)
  \/ \E u \in Riders \cup {"cust1"}, oid \in DispatchOrderIds : AcceptOrder(u, oid)
  \/ \E u \in {"owner1", "owner2"}, oid \in DispatchOrderIds, p \in PartnerIds \cup {"p9"} :
       AssignDeliveryPartner(u, oid, p)

SpecDispatch == Init /\ [][NextDispatch]_vars

(* acceptOrder requests of the partners interleaving on the orders *)
NextAcceptRace ==
  \/ \E c \in GeneratedOtps :
       CreateOrder("cust1", "r1", ExampleCart, "a1", "cash_on_delivery", c, MaxOrders)
  \/ \E oid \in OrderIds, status \in OrderStatuses :
       UpdateOrderStatus("owner1", oid, status, NoValue)
  \/ UpdateApprovalStatus("admin1", "p2", TRUE)
  \/ \E u \in Riders : UpdateAvailability(u, TRUE)
  \/ \E c \in CallIds, u \in Riders, oid \in OrderIds : AcceptOrderRead(c, u, oid)
  \/ \E c \in CallIds : AcceptOrderSaveOrder(c)
  \/ \E c \in CallIds : AcceptOrderSavePartner(c)

SpecAcceptRace == Init /\ [][NextAcceptRace]_vars

(* ------------------- the access specification ------------------------ *)
(* an order is placed, prepared and accepted by a partner while users of
   every kind ask to read it *)
NextAccess ==
  \/ \E c \in GeneratedOtps :
       CreateOrder("cust1", "r1", ExampleCart, "a1", "cash_on_delivery", c, MaxOrders)
  \/ \E oid \in OrderIds, status \in OrderStatuses :
       UpdateOrderStatus("owner1", oid, status, NoValue)
  \/ \E u \in Riders : UpdateAvailability(u, TRUE)
  \/ \E u \in Riders, oid \in OrderIds : AcceptOrder(u, oid)
  \/ \E u \in Users, oid \in OrderIds \cup {MaxOrders + 1} : GetOrder(u, oid)

SpecAccess == Init /\ [][NextAccess]_vars

(* ------------------- the profile specification ----------------------- *)
ProfileBodies ==
  { [statistics |-> [totalOrders |-> MaxOrders + 1]],
    [isOnline |-> TRUE],
    [vehicleInfo |-> "bike"] }

RestaurantBodies ==
  { [rating |-> [average |-> 50, count |-> MaxReviews + 1]],
    [rating |-> [average |-> 60, count |-> 1]],
    [description |-> "renamed"] }

(* an order is placed, delivered and reviewed while partners and owners send
   profile updates *)
NextProfile ==
  \/ \E c \in GeneratedOtps :
       CreateOrder("cust1", "r1", ExampleCart, "a1", "cash_on_delivery", c, MaxOrders)
  \/ \E oid \in OrderIds, status \in OrderStatuses :
       UpdateOrderStatus("owner1", oid, status, NoValue)
  \/ \E u \in Riders : UpdateAvailability(u, TRUE)
  \/ \E u \in Riders, oid \in OrderIds : AcceptOrder(u, oid)
  \/ \E oid \in OrderIds, otp \in OtpCodes : VerifyDeliveryOTP("admin1", oid, otp)
  \/ \E oid \in OrderIds : CreateReview("cust1", oid, Rt(50, 40, 40, 40))
  \/ \E u \in Riders \cup {"cust1"}, body \in ProfileBodies : UpdateMyProfile(u, body)
  \/ \E u \in {"owner1", "owner2", "cust1"}, r \in RestaurantIds \cup {"r9"},
        body \in RestaurantBodies :
       UpdateRestaurant(u, r, body)

SpecProfile == Init /\ [][NextProfile]_vars

(* ------------------- the catalog specification ----------------------- *)
MenuItemBodies == { [price |-> 12000], [price |-> 0 - 100], [description |-> "new"] }

FeeBodies == { [deliveryFee |-> 4000], [deliveryFee |-> 0 - 100] }

(* an order goes through its life while the owner changes the price of its
   menu item and the restaurant's delivery fee *)
NextCatalog ==
  \/ \E c \in GeneratedOtps :
       CreateOrder("cust1", "r1", ExampleCart, "a1", "cash_on_delivery", c, MaxOrders)
  \/ \E u \in {"owner1", "cust1"}, oid \in OrderIds, status \in OrderStatuses :
       UpdateOrderStatus(u, oid, status, NoValue)
  \/ \E oid \in OrderIds : CancelOrder("cust1", oid, NoValue)
  \/ \E oid \in OrderIds, p \in PartnerIds : AssignDeliveryPartner("owner1", oid, p)
  \/ \E u \in Riders : UpdateAvailability(u, TRUE)
  \/ \E u \in Riders, oid \in OrderIds : AcceptOrder(u, oid)
  \/ \E oid \in OrderIds, otp \in OtpCodes : VerifyDeliveryOTP("admin1", oid, otp)
  \/ \E oid \in OrderIds : CreateReview("cust1", oid, Rt(50, 40, 40, 40))
  \/ \E u \in {"owner1", "owner2", "cust1"}, m \in {"m1", "m9"}, body \in MenuItemBodies :
       UpdateMenuItem(u, m, body)
  \/ \E body \in FeeBodies : UpdateRestaurant("owner1", "r1", body)

SpecCatalog == Init /\ [][NextCatalog]_vars

(* ------------------- the concurrent creation specification ----------- *)
(* createOrder requests interleave between the hook's count and the insert *)
NextCreateRace ==
  \/ Tick
  \/ \E c \in CallIds, cart \in {ExampleCart, << Line("m2", 2, NoValue, << >>, << >>) >>},
        otp \in GeneratedOtps :
       CreateOrderCount(c, "cust1", "r1", cart, "a1", "cash_on_delivery", otp,
                        MaxDispatchOrders)
  \/ \E c \in CallIds : CreateOrderInsert(c)
  \/ \E u \in {"owner1", "cust1"}, oid \in DispatchOrderIds, status \in OrderStatuses :
       UpdateOrderStatus(u, oid, status, NoValue)

SpecCreateRace == Init /\ [][NextCreateRace]_vars

(* ============================== claims ================================ *)
(* the transition table as the specification states it *)
TableTargets(from) ==
  CASE from = "pending" -> {"confirmed", "cancelled"}
    [] from = "confirmed" -> {"preparing", "cancelled"}
    [] from = "preparing" -> {"ready_for_pickup", "cancelled"}
    [] from = "ready_for_pickup" -> {"out_for_delivery", "cancelled"}
    [] from = "out_for_delivery" -> {"delivered", "cancelled"}
    [] from = "delivered" -> {}
    [] from = "cancelled" -> {}
    [] from = "refunded" -> {}

TerminalStatuses == {"delivered", "cancelled", "refunded"}

LastTwo(seq) == IF Len(seq) < 2 THEN << >> ELSE << seq[Len(seq) - 1], seq[Len(seq)] >>

(* C1: in every reachable state, an authorised caller's updateOrderStatus
   request for a status that the transition table does not list for the
   order's current status is refused, and a refused updateOrderStatus request
   leaves every order, so its orderStatus, as it was. *)
C1_InvalidTransitionRejected ==
  /\ [](\A u \in Users, oid \in OrderIds, status \in OrderStatuses, reason \in Reasons :
          ( /\ Exists(oid)
            /\ canUpdate(orders[oid], u, status)
            /\ status \notin TableTargets(orders[oid].orderStatus) )
          => UpdateOrderStatusOutcome(u, oid, status, reason).code # 200)
  /\ [][(response'.op = "updateOrderStatus" /\ response'.code # 200)
          => orders' = orders]_vars

C1_Witness ==
  /\ response.op = "updateOrderStatus"
  /\ response.code = 400
  /\ response.msg = "Cannot change status"
  /\ \E oid \in OrderIds : Exists(oid) /\ orders[oid].orderStatus = "confirmed"

(* C2: once an order is delivered, cancelled or refunded, no operation
   changes its orderStatus. *)
C2_TerminalAbsorbing ==
  [][\A oid \in OrderIds :
       (Exists(oid) /\ orders[oid].orderStatus \in TerminalStatuses)
         => orders'[oid].orderStatus = orders[oid].orderStatus]_vars

(* C3: orderStatus becomes delivered only in a step whose previous
   orderStatus was out_for_delivery. *)
C3_DeliveredOnlyFromOutForDelivery ==
  [][\A oid \in OrderIds :
       (Exists(oid) /\ orders[oid].orderStatus # "delivered"
          /\ orders'[oid].orderStatus = "delivered")
         => orders[oid].orderStatus = "out_for_delivery"]_vars

(* C4: a delivered order has no otp, neither code nor expiry. *)
C4_DeliveredHasNoOtp ==
  \A oid \in OrderIds :
    (Exists(oid) /\ orders[oid].orderStatus = "delivered")
      => (orders[oid].otp.code = NoValue /\ orders[oid].otp.expiresAt = NoNumber)

(* C5: verifyDeliveryOTP, reached by a caller the route admits, on an order
   in out_for_delivery with the stored code and at a time not after
   otp.expiresAt succeeds, and the successful step leaves the order with
   orderStatus delivered, actualDeliveryTime the current time and no otp. *)
C5_CorrectOtpDelivers ==
  /\ [](\A u \in Users, oid \in OrderIds, otp \in OtpCodes :
          ( /\ authorize({"delivery_partner", "admin"}, u)
            /\ Exists(oid)
            /\ orders[oid].orderStatus = "out_for_delivery"
            /\ otp = orders[oid].otp.code
            /\ now <= orders[oid].otp.expiresAt )
          => VerifyDeliveryOTPOutcome(u, oid, otp).code = 200)
  /\ [][(response'.op = "verifyDeliveryOTP" /\ response'.code = 200) =>
          \A u \in Users, oid \in OrderIds, otp \in OtpCodes :
            ( /\ Exists(oid)
              /\ orders[oid].orderStatus = "out_for_delivery"
              /\ VerifyDeliveryOTP(u, oid, otp) )
            => /\ orders'[oid].orderStatus = "delivered"
               /\ orders'[oid].actualDeliveryTime = now
               /\ orders'[oid].otp.code = NoValue
               /\ orders'[oid].otp.expiresAt = NoNumber]_vars

C5_Witness ==
  /\ response.op = "verifyDeliveryOTP"
  /\ response.code = 200
  /\ \E oid \in OrderIds :
       /\ Exists(oid)
       /\ LastTwo(orders[oid].timeline) = << "out_for_delivery", "delivered" >>
       /\ orders[oid].actualDeliveryTime = now
       /\ orders[oid].otp = NoOtp

(* C6: in every reachable state verifyDeliveryOTP with a code other than
   the stored one, or later than otp.expiresAt, is refused, also when the
   order has no otp any more; a refused request leaves every order unchanged;
   the expiry of a stored otp is 30 minutes after the order's creation. *)
C6_WrongOrExpiredOtpRejected ==
  /\ [](\A u \in Users, oid \in OrderIds, otp \in OtpCodes \cup {NoValue} :
          ( /\ Exists(oid)
            /\ \/ otp # orders[oid].otp.code
               \/ (orders[oid].otp.expiresAt # NoNumber /\ now > orders[oid].otp.expiresAt) )
          => VerifyDeliveryOTPOutcome(u, oid, otp).code # 200)
  /\ [](\A oid \in OrderIds :
          (Exists(oid) /\ orders[oid].otp.expiresAt # NoNumber)
            => orders[oid].otp.expiresAt = orders[oid].orderNumber.ts + 30)
  /\ [][(response'.op = "verifyDeliveryOTP" /\ response'.code # 200)
          => orders' = orders]_vars

C6_Witness ==
  /\ response.op = "verifyDeliveryOTP"
  /\ response.code = 400
  /\ response.msg = "Invalid or expired OTP"
  /\ \E oid \in OrderIds :
       /\ Exists(oid)
       /\ orders[oid].otp.code # NoValue
       /\ now > orders[oid].otp.expiresAt
       /\ orders[oid].orderStatus = "out_for_delivery"

(* C7: a caller who is only the order's customer has a status request
   accepted, by updateOrderStatus as by cancelOrder, only if it asks for
   cancelled and the order is pending, confirmed or preparing. *)
C7_CustomerCancelsOnlyEarly ==
  \A u \in Users, oid \in OrderIds :
    ( /\ Exists(oid)
      /\ Role(u) = "customer"
      /\ orders[oid].customer = u
      /\ ~IsPartnerUser(orders[oid], u) )
    => /\ \A status \in OrderStatuses, reason \in Reasons :
            UpdateOrderStatusOutcome(u, oid, status, reason).code = 200
              => /\ status = "cancelled"
                 /\ orders[oid].orderStatus \in {"pending", "confirmed", "preparing"}
       /\ \A reason \in Reasons :
            CancelOrderOutcome(u, oid, reason).code = 200
              => orders[oid].orderStatus \in {"pending", "confirmed", "preparing"}

(* C8: a step that cancels an order leaves it cancelled with
   cancellationDetails.refundAmount equal to its pricing.total and
   refundStatus pending. *)
C8_CancellationRefundsTotal ==
  [][\A oid \in OrderIds :
       (Exists(oid) /\ orders[oid].orderStatus # "cancelled"
          /\ orders'[oid].orderStatus = "cancelled")
         => /\ response'.op \in {"cancelOrder", "updateOrderStatus"}
            /\ response'.code = 200
            /\ orders'[oid].cancellationDetails.refundAmount = orders[oid].pricing.total
            /\ orders'[oid].pricing.total = orders[oid].pricing.total
            /\ orders'[oid].cancellationDetails.refundStatus = "pending"]_vars

C8_Witness ==
  /\ response.op = "cancelOrder"
  /\ response.code = 200
  /\ \E oid \in OrderIds :
       /\ Exists(oid)
       /\ orders[oid].orderStatus = "cancelled"
       /\ orders[oid].cancellationDetails.refundAmount = 29700

Abs(x) == IF x < 0 THEN 0 - x ELSE x

KnownItems(cart) == \A k \in 1..Len(cart) : cart[k].menuItem \in MenuItemIds

(* C9: every order persisted by createOrder has total = subtotal +
   deliveryFee + platformFee + packagingFee + cgst + sgst, with subtotal,
   item totals, fees and total all >= 0, platformFee the nearest whole rupee
   to 2% of subtotal, packagingFee 10, cgst = sgst the nearest hundredth to
   2.5% of subtotal and igst 0; the cart of one item priced 100, quantity 2,
   with one add-on priced 20 and deliveryFee 30 gives subtotal 240, total 297. *)
C9_PricingIdentity ==
  /\ \A oid \in 1..Len(orders) :
       LET p == orders[oid].pricing
       IN /\ p.total = p.subtotal + p.deliveryFee + p.platformFee + p.packagingFee
                         + p.taxes.cgst + p.taxes.sgst
          /\ p.subtotal >= 0
          /\ \A k \in 1..Len(orders[oid].items) : orders[oid].items[k].itemTotal >= 0
          /\ p.deliveryFee >= 0
          /\ p.platformFee >= 0
          /\ p.total >= 0
          /\ p.platformFee % 100 = 0
          /\ 2 * Abs(p.platformFee * 50 - p.subtotal) <= 5000
          /\ p.packagingFee = 1000
          /\ p.taxes.cgst = p.taxes.sgst
          /\ p.taxes.cgst >= 0
          /\ 2 * Abs(p.taxes.cgst * 40 - p.subtotal) <= 40
          /\ p.taxes.igst = 0
  /\ ( /\ response.op = "createOrder"
       /\ response.code = 201
       /\ response.cart = ExampleCart )
     => /\ orders[Len(orders)].pricing.subtotal = 24000
        /\ orders[Len(orders)].pricing.deliveryFee = 3000
        /\ orders[Len(orders)].pricing.total = 29700

C9_Witness ==
  /\ response.op = "createOrder"
  /\ response.code = 201
  /\ \E k \in 1..Len(orders[Len(orders)].items) :
       LET c == orders[Len(orders)].items[k].customizations
       IN /\ Len(c) > 0
          /\ c[1].selectedOptions[1].priceModifier < 0
          /\ orders[Len(orders)].items[k].quantity = 2

(* C10: a createOrder request whose computed subtotal is below the
   restaurant's minimumOrder is refused, a refused request leaves the orders
   as they were, and a subtotal equal to minimumOrder is not refused for the
   minimum. *)
C10_BelowMinimumRejected ==
  /\ []( ( /\ response.op = "createOrder"
           /\ response.restaurant \in RestaurantIds
           /\ KnownItems(response.cart) )
         => LET subtotal == Subtotal(OrderItems(response.cart))
                minimumOrder == Restaurant(response.restaurant).minimumOrder
            IN /\ subtotal < minimumOrder => response.code # 201
               /\ subtotal = minimumOrder => response.msg # "Minimum order value" )
  /\ [][(response'.op = "createOrder" /\ response'.code # 201) => orders' = orders]_vars

C10_Witness ==
  /\ response.op = "createOrder"
  /\ response.msg = "Minimum order value"
  /\ response.restaurant = "r1"
  /\ Subtotal(OrderItems(response.cart)) = 4000
  /\ orders = << >>

(* the unit price as the specification resolves it *)
SpecUnitPrice(menuItem, line) ==
  IF line.variant # NoValue
  THEN LET variant == FindByName(menuItem.variants, line.variant, 1)
       IN IF variant.discountedPrice # NoNumber THEN variant.discountedPrice
          ELSE variant.price
  ELSE IF menuItem.discountedPrice # NoNumber THEN menuItem.discountedPrice
  ELSE menuItem.price

(* C11: on every order createOrder persists, the price stored on a line is
   the named variant's discountedPrice if present, else the variant's price,
   and for a line that names no variant the menu item's own discountedPrice
   if present, else its base price. *)
C11_UnitPriceSnapshot ==
  (response.op = "createOrder" /\ response.code = 201)
    => \A k \in 1..Len(response.cart) :
         LET line == response.cart[k]
             menuItem == MenuItem(line.menuItem)
         IN (line.variant = NoValue \/ Found(FindByName(menuItem.variants, line.variant, 1)))
              => orders[Len(orders)].items[k].price = SpecUnitPrice(menuItem, line)

(* a cart line that names a variant the menu item does not have, or an
   add-on the menu item does not have or has marked unavailable *)
BadReference(line) ==
  LET menuItem == MenuItem(line.menuItem)
  IN \/ line.variant # NoValue /\ ~Found(FindByName(menuItem.variants, line.variant, 1))
     \/ \E j \in 1..Len(line.addOns) :
          LET menuAddOn == FindByName(menuItem.addOns, line.addOns[j].name, 1)
          IN ~Found(menuAddOn) \/ ~menuAddOn.isAvailable

(* C12: a createOrder request with a cart line that names a variant missing
   from the menu item, or an add-on that is missing from it or unavailable,
   is refused and no order is written. *)
C12_UnknownVariantOrAddOnRejected ==
  ( /\ response.op = "createOrder"
    /\ KnownItems(response.cart)
    /\ \E k \in 1..Len(response.cart) : BadReference(response.cart[k]) )
  => (response.code # 201 /\ orders = << >>)

(* C13: no order is referenced by more than one review in the collection,
   also when two createReview requests for the order interleave between the
   search for an existing review and the insert. *)
C13_OneReviewPerOrder ==
  \A oid \in ReviewOrderIds : Cardinality(ReviewsOfOrder(oid)) <= 1

(* C14: createReview succeeds only for an existing order whose customer is
   the caller and whose orderStatus is delivered; a createReview request
   that fails leaves the reviews, the orders (so their rating) and the
   aggregate ratings as they were. *)
C14_ReviewOnlyOwnDeliveredOrder ==
  /\ [](\A u \in ReviewUsers, oid \in ReviewOrderIds \cup {MaxReviewOrders + 1},
           rt \in ReviewRatings :
          CreateReviewOutcome(u, oid, rt).code = 201
            => /\ Exists(oid)
               /\ orders[oid].customer = u
               /\ orders[oid].orderStatus = "delivered")
  /\ [][(response'.op = "createReview" /\ response'.code # 201)
          => (reviews' = reviews /\ orders' = orders /\ ratings' = ratings)]_vars

C14_Witness ==
  /\ response.op = "createReview"
  /\ response.code = 400
  /\ response.msg = "Cannot review order that is not delivered"
  /\ \E oid \in ReviewOrderIds :
       /\ Exists(oid)
       /\ orders[oid].orderStatus = "out_for_delivery"
       /\ orders[oid].customer = "cust1"
       /\ orders[oid].rating = NoRating
  /\ \E oid \in ReviewOrderIds : ReviewsOfOrder(oid) # {}

(* C15: whenever N >= 1 reviews exist for a restaurant, its rating.count is
   N and its rating.average is the mean of their overall ratings rounded to
   one decimal. *)
C15_AggregateMatchesReviews ==
  \A r \in RestaurantIds :
    CountReviews(reviews, r) >= 1
      => /\ ratings[r].count = CountReviews(reviews, r)
         /\ ratings[r].average = RoundDiv(SumOverall(reviews, r, 1), CountReviews(reviews, r))

(* C16: no delivery partner is the deliveryPartner of two different orders
   that are both out_for_delivery. *)
C16_OneActiveOrderPerPartner ==
  \A o1, o2 \in 1..Len(orders) :
    ( /\ o1 # o2
      /\ orders[o1].orderStatus = "out_for_delivery"
      /\ orders[o2].orderStatus = "out_for_delivery"
      /\ orders[o1].deliveryPartner # NoValue )
    => orders[o1].deliveryPartner # orders[o2].deliveryPartner

(* C17: assignDeliveryPartner succeeds only when the order has no
   deliveryPartner yet and the candidate partner exists and is online. *)
C17_AssignOnlyUnassignedOrder ==
  \A u \in Users, oid \in DispatchOrderIds, p \in PartnerIds \cup {"p9"} :
    AssignDeliveryPartnerOutcome(u, oid, p).code = 200
      => /\ orders[oid].deliveryPartner = NoValue
         /\ p \in PartnerIds
         /\ partners[p].isOnline

HoldersOf(oid) == { p \in PartnerIds : partners[p].currentOrder = oid }

(* C18: with acceptOrder requests running one after another, the request of
   an online partner without a current order for a ready_for_pickup order
   without partner is accepted; a request for an order that is not
   ready_for_pickup or already has a partner is refused
   and a refused request changes no document; the accepted request leaves
   the order out_for_delivery with the accepting partner as deliveryPartner
   and that partner's currentOrder pointing at it; no order is ever the
   currentOrder of two partners. *)
C18_SerialAcceptFirstWins ==
  /\ [](\A u \in Users, oid \in DispatchOrderIds :
          ( /\ HasProfile(u)
            /\ partners[ProfileOf(u)].isOnline
            /\ partners[ProfileOf(u)].currentOrder = 0
            /\ Exists(oid)
            /\ orders[oid].orderStatus = "ready_for_pickup"
            /\ orders[oid].deliveryPartner = NoValue )
          => AcceptOrderOutcome(u, oid).code = 200)
  /\ [](\A u \in Users, oid \in DispatchOrderIds :
          ( /\ Exists(oid)
            /\ \/ orders[oid].orderStatus # "ready_for_pickup"
               \/ orders[oid].deliveryPartner # NoValue )
          => AcceptOrderOutcome(u, oid).code # 200)
  /\ [](\A oid \in DispatchOrderIds : Cardinality(HoldersOf(oid)) <= 1)
  /\ [][(response'.op = "acceptOrder" /\ response'.code # 200)
          => (orders' = orders /\ partners' = partners)]_vars
  /\ [][(response'.op = "acceptOrder" /\ response'.code = 200)
          => \E oid \in DispatchOrderIds, p \in PartnerIds :
               /\ Exists(oid)
               /\ orders[oid].orderStatus = "ready_for_pickup"
               /\ orders[oid].deliveryPartner = NoValue
               /\ orders'[oid].orderStatus = "out_for_delivery"
               /\ orders'[oid].deliveryPartner = p
               /\ HoldersOf(oid) = {}
               /\ partners'[p].currentOrder = oid
               /\ partners'[p].totalOrders = partners[p].totalOrders + 1
               /\ \A q \in PartnerIds \ {p} : partners'[q] = partners[q]]_vars

C18_Witness ==
  /\ response.op = "acceptOrder"
  /\ response.code = 400
  /\ response.msg = "Order not available for pickup"
  /\ \E oid \in DispatchOrderIds :
       /\ Exists(oid)
       /\ orders[oid].orderStatus = "out_for_delivery"
       /\ orders[oid].deliveryPartner = "p1"
       /\ HoldersOf(oid) = {"p1"}
  /\ partners["p2"].isOnline
  /\ partners["p2"].currentOrder = 0

(* C19: when no acceptOrder request is in flight any more, an order is the
   currentOrder of at most one partner, that partner is the order's
   deliveryPartner, and only that partner had totalOrders incremented. *)
C19_ConcurrentAcceptOneWinner ==
  (\A c \in CallIds : inFlight[c] = Idle)
    => \A oid \in OrderIds :
         /\ Cardinality(HoldersOf(oid)) <= 1
         /\ \A p \in HoldersOf(oid) : Exists(oid) /\ orders[oid].deliveryPartner = p
         /\ Cardinality({ p \in PartnerIds : partners[p].totalOrders > 0 }) <= 1

(* C20: every order's timeline has at least one entry from its creation on
   (order_placed first), the timeline only grows at its end, and every step
   that changes an order's orderStatus appends one entry; so its length is
   at least the number of status changes plus one. *)
C20_TimelineCoversStatusChanges ==
  /\ [](\A oid \in OrderIds :
          Exists(oid) => (Len(orders[oid].timeline) >= 1
                            /\ orders[oid].timeline[1] = "order_placed"))
  /\ [][\A oid \in OrderIds :
          Exists(oid)
            => /\ Len(orders'[oid].timeline) >= Len(orders[oid].timeline)
               /\ SubSeq(orders'[oid].timeline, 1, Len(orders[oid].timeline))
                    = orders[oid].timeline
               /\ (orders'[oid].orderStatus # orders[oid].orderStatus
                     => Len(orders'[oid].timeline) = Len(orders[oid].timeline) + 1)]_vars

(* C21: getOrder on an existing order answers 200 exactly for the order's
   customer, the owner of its restaurant, the user of its assigned delivery
   partner and an admin, and 403 for every other caller. *)
C21_GetOrderAccess ==
  \A u \in Users, oid \in OrderIds :
    Exists(oid)
      => LET entitled == \/ orders[oid].customer = u
                         \/ Restaurant(orders[oid].restaurant).owner = u
                         \/ IsPartnerUser(orders[oid], u)
                         \/ Role(u) = "admin"
         IN /\ entitled => GetOrderOutcome(u, oid).code = 200
            /\ ~entitled => GetOrderOutcome(u, oid).code = 403

(* C22: the aggregate rating of a restaurant changes only in a step of the
   rating aggregator (a review created, updated or deleted), and a delivery
   partner's statistics.totalOrders changes only in an accept-order step: no
   request that assigns a user-supplied body changes either. *)
C22_AggregatesNotSetByRequestBody ==
  [][ /\ ratings' # ratings
        => response'.op \in {"createReview", "updateReview", "deleteReview"}
      /\ (\E p \in PartnerIds : partners'[p].totalOrders # partners[p].totalOrders)
        => response'.op = "acceptOrder" ]_vars

(* the parties a caller is with respect to an order, in the vocabulary of
   cancellationDetails.cancelledBy *)
PartiesOf(order, u) ==
  {party \in CancelledByValues :
     \/ party = "customer" /\ order.customer = u
     \/ party = "restaurant" /\ Restaurant(order.restaurant).owner = u
     \/ party = "admin" /\ Role(u) = "admin"}

(* C23: a cancellation that succeeds, through cancelOrder or through
   updateOrderStatus, records in cancellationDetails.cancelledBy the party
   the caller actually is: customer for the order's customer, restaurant for
   the restaurant's owner, admin for an admin. *)
C23_CancelledByIsTheCaller ==
  \A u \in Users, oid \in OrderIds, reason \in Reasons :
    /\ CancelOrderOutcome(u, oid, reason).code = 200
         => Cancelled(orders[oid], reason).cancellationDetails.cancelledBy
              \in PartiesOf(orders[oid], u)
    /\ UpdateOrderStatusOutcome(u, oid, "cancelled", reason).code = 200
         => StatusUpdated(orders[oid], u, "cancelled", reason)
              .cancellationDetails.cancelledBy \in PartiesOf(orders[oid], u)

(* C24: the owner of an order's restaurant, and the user of its assigned
   delivery partner, who asks updateOrderStatus for a transition that the
   table allows from the order's current status gets 200, and the order is
   saved with the requested status; this includes the transitions to
   cancelled. *)
C24_AllowedTransitionAccepted ==
  \A u \in Users, oid \in OrderIds, status \in OrderStatuses, reason \in Reasons :
    ( /\ Exists(oid)
      /\ \/ Restaurant(orders[oid].restaurant).owner = u
         \/ IsPartnerUser(orders[oid], u)
      /\ status \in validTransitions(orders[oid].orderStatus) )
      => /\ UpdateOrderStatusOutcome(u, oid, status, reason).code = 200
         /\ StatusUpdated(orders[oid], u, status, reason).orderStatus = status

(* C25: in every reachable state an order carries cancellationDetails or a
   cancellationReason only when its status is cancelled, and carries a rating
   only when its status is delivered. *)
C25_DetailsMatchStatus ==
  \A oid \in 1..Len(orders) :
    /\ ( \/ orders[oid].cancellationDetails # NoCancellationDetails
         \/ orders[oid].cancellationReason # NoValue )
         => orders[oid].orderStatus = "cancelled"
    /\ orders[oid].rating # NoRating => orders[oid].orderStatus = "delivered"

(* the fields of an order's line items that the snapshot fixes *)
LineSnapshot(order) ==
  [k \in 1..Len(order.items) |->
     [name |-> order.items[k].name, price |-> order.items[k].price,
      quantity |-> order.items[k].quantity, itemTotal |-> order.items[k].itemTotal]]

(* C26: once an order exists, no step changes its line items (name, unit
   price, quantity, itemTotal) or its pricing block: not a status update, a
   cancellation, an assignment or acceptance, an OTP verification or a
   review, and not a change of a menu item's price or of the restaurant's
   delivery fee. *)
C26_SnapshotNeverChanges ==
  [][ \A oid \in 1..Len(orders) :
        /\ LineSnapshot(orders'[oid]) = LineSnapshot(orders[oid])
        /\ orders'[oid].pricing = orders[oid].pricing ]_vars

(* a delivered and reviewed order whose unit price and delivery fee differ
   from the catalog's, which changed after the order was placed *)
C26_Witness ==
  /\ Exists(1)
  /\ orders[1].orderStatus = "delivered"
  /\ orders[1].rating # NoRating
  /\ orders[1].deliveryPartner # NoValue
  /\ orders[1].items[1].price # MenuItem(orders[1].items[1].menuItem).price
  /\ orders[1].pricing.deliveryFee # Restaurant(orders[1].restaurant).deliveryFee

(* C27: no two stored orders have the same order number, no step changes
   the number of a stored order, and a createOrder request that passed its
   checks and reached the insert creates its order, also when another
   request counted the orders in the same instant. *)
C27_OrderNumbersUniqueAndAllCreated ==
  /\ [](\A i, j \in 1..Len(orders) :
          i # j => orders[i].orderNumber # orders[j].orderNumber)
  /\ [][ /\ \A oid \in 1..Len(orders) :
              orders'[oid].orderNumber = orders[oid].orderNumber
         /\ \A c \in CallIds :
              inFlight[c].op = "createOrder" /\ inFlight'[c] = Idle
                => Len(orders') = Len(orders) + 1 ]_vars

(* C28: in every reachable state a delivery partner whose currentOrder is
   set refers to an order that is out_for_delivery and has that partner as
   its deliveryPartner; so a partner whose order was delivered or cancelled
   has no currentOrder. *)
C28_CurrentOrderIsInDelivery ==
  \A p \in PartnerIds :
    partners[p].currentOrder # 0
      => /\ Exists(partners[p].currentOrder)
         /\ orders[partners[p].currentOrder].orderStatus = "out_for_delivery"
         /\ orders[partners[p].currentOrder].deliveryPartner = p

(* C29: verifyDeliveryOTP answers 200, and so moves the order to delivered,
   only for a caller who is an admin or the user of the delivery partner
   assigned to the order; for every other caller, with whatever code, the
   request is refused and the order is left as it was. *)
C29_OnlyAdminOrAssignedPartnerDelivers ==
  /\ [](\A u \in Users, oid \in OrderIds, otp \in OtpCodes :
          VerifyDeliveryOTPOutcome(u, oid, otp).code = 200
            => Role(u) = "admin" \/ IsPartnerUser(orders[oid], u))
  /\ [][ response'.op = "verifyDeliveryOTP" /\ response'.code # 200
           => orders' = orders ]_vars

(* an order out for delivery with partner p1 and its code still valid, for
   which the request of the other partner's user has just been refused *)
C29_Witness ==
  /\ Exists(1)
  /\ orders[1].orderStatus = "out_for_delivery"
  /\ orders[1].deliveryPartner = "p1"
  /\ orders[1].otp # NoOtp
  /\ ~OtpRejected(orders[1], orders[1].otp.code)
  /\ VerifyDeliveryOTPOutcome("rider2", 1, orders[1].otp.code).code = 403
  /\ response.op = "verifyDeliveryOTP"
  /\ response.code = 403

(* C30: after a createReview answered 201, the rating on the order agrees
   with the stored review: the same food and delivery ratings, and an
   overall equal to the review's derived overall, the rounded mean of food,
   delivery and service, whatever overall the request carried. *)
C30_OrderRatingMatchesReview ==
  [][ ( /\ response'.op = "createReview"
        /\ response'.code = 201
        /\ Len(reviews') = Len(reviews) + 1 )
        => LET stored == reviews'[Len(reviews')]
           IN /\ orders'[stored.order].rating.food = stored.ratings.food
              /\ orders'[stored.order].rating.delivery = stored.ratings.delivery
              /\ orders'[stored.order].rating.overall = stored.ratings.overall
              /\ stored.ratings.overall = DerivedOverall(stored.ratings) ]_vars

====
